---- MODULE Spec2Model ----
(***************************************************************************)
(* The tool handlers that MyMCP.init registers (src/unnamed/part_001, the  *)
(* five-tool revision of src/src/index.ts): fetchAudioAndSave,             *)
(* summarizeText, scrapeUrlAndSublinks, uploadAudioToR2 and                *)
(* getFromCloudflareKV.  One invocation runs at a time: Invoke issues the  *)
(* first outbound request, the upstream answers nondeterministically, and  *)
(* the handler's try/catch turns the answer into a ToolResult.             *)
(*                                                                         *)
(* Strings are TLA+ strings, built with \o exactly as the template         *)
(* literals of the source build them.  An exception is a value: every      *)
(* handler body yields a completion, Return(v) or Throw(e).                *)
(***************************************************************************)
EXTENDS Integers, Sequences, FiniteSets, TLC

VARIABLES
    config,            \* module-level constants CLOUDFLARE_* and R2_URL
    revision,          \* the revision of MyMCP the worker runs
    pc,                \* position of the running handler
    tool,              \* name of the invoked tool
    args,              \* the validated input of the invocation
    requests,          \* outbound requests issued by this invocation
    upstream,          \* what axios delivered for the first request
    caught,            \* the error the handler's outer catch received
    result,            \* the ToolResult the handler returned
    audioId,           \* uuid.v4() drawn by the invocation
    finalContentType,  \* uploadAudioToR2 local
    finalFileName,     \* uploadAudioToR2 local
    rootData,          \* scrapeUrlAndSublinks local: response.data of the root
    mainText,          \* scrapeUrlAndSublinks local
    sublinks,          \* scrapeUrlAndSublinks local: the sliced hrefs
    idx,               \* scrapeUrlAndSublinks: sublinks consumed by the loop
    sublinkUrl,        \* scrapeUrlAndSublinks local of the current iteration
    sublinkTexts,      \* scrapeUrlAndSublinks local: <<key, value>> pairs
    attempts,          \* per sublink fetch: [url, failed, value]
    calls,             \* concurrent invocations: position, input, result
    frames             \* concurrent invocations: the locals of each handler call

vars == <<config, revision, pc, tool, args, requests, upstream, caught, result, audioId,
          finalContentType, finalFileName, rootData, mainText, sublinks, idx,
          sublinkUrl, sublinkTexts, attempts, calls, frames>>

----------------------------------------------------------------------------
(* Strings *)

StartsWith(s, p) == Len(s) >= Len(p) /\ SubSeq(s, 1, Len(p)) = p

Contains(s, p) ==
    \E i \in 1..(Len(s) - Len(p) + 1) : SubSeq(s, i, i + Len(p) - 1) = p

IsSpace(c) == c \in {" ", "\n", "\t"}

RECURSIVE TrimStart(_)
TrimStart(s) ==
    IF Len(s) > 0 /\ IsSpace(SubSeq(s, 1, 1))
    THEN TrimStart(SubSeq(s, 2, Len(s)))
    ELSE s

RECURSIVE TrimEnd(_)
TrimEnd(s) ==
    IF Len(s) > 0 /\ IsSpace(SubSeq(s, Len(s), Len(s)))
    THEN TrimEnd(SubSeq(s, 1, Len(s) - 1))
    ELSE s

\* String.prototype.trim
Trim(s) == TrimEnd(TrimStart(s))

----------------------------------------------------------------------------
(* Optional values, completions, errors *)

None == [has |-> FALSE]
Some(v) == [has |-> TRUE, v |-> v]

\* a || b on an optional string: the empty string is falsy
OrElse(o, d) == IF o.has /\ o.v # "" THEN o.v ELSE d

Return(v) == [threw |-> FALSE, value |-> v]
Throw(e) == [threw |-> TRUE, error |-> e]

NoResponse == [has |-> FALSE]

\* new Error(message): carries no response
NewError(message) == [message |-> message, response |-> NoResponse]

Text(t) == [type |-> "text", text |-> t]
Resource(r) == [type |-> "resource", resource |-> r]
ToolResult(items) == [content |-> items]

NoResult == [content |-> <<>>, none |-> TRUE]
NoError == [none |-> TRUE]
NoOutcome == [kind |-> "none"]

----------------------------------------------------------------------------
(* Process configuration *)

\* process.env at start-up: unset, or set by the deployment
Envs ==
    { [CLOUDFLARE_API_KEY |-> None, CLOUDFLARE_EMAIL |-> None,
       CLOUDFLARE_ACCOUNT_ID |-> None, CLOUDFLARE_NAMESPACE_ID |-> None],
      [CLOUDFLARE_API_KEY |-> Some("env-key"),
       CLOUDFLARE_EMAIL |-> Some("ops@example.test"),
       CLOUDFLARE_ACCOUNT_ID |-> Some("acct1"),
       CLOUDFLARE_NAMESPACE_ID |-> Some("ns-env")] }

Config(env) ==
    [CLOUDFLARE_API_KEY |->
        OrElse(env.CLOUDFLARE_API_KEY, "e6724152b4e4113929c4baca8b9585a3e5d95"),
     CLOUDFLARE_EMAIL |-> OrElse(env.CLOUDFLARE_EMAIL, "rondweb@gmail.com"),
     CLOUDFLARE_ACCOUNT_ID |->
        OrElse(env.CLOUDFLARE_ACCOUNT_ID, "6760bc62386c6b7df606414571f8164c"),
     CLOUDFLARE_NAMESPACE_ID |->
        OrElse(env.CLOUDFLARE_NAMESPACE_ID, "your-namespace-id"),
     R2_URL |-> "https://pub-3bf40eb073024dc2846e1518b851c583.r2.dev"]

ApiBase == "https://api.cloudflare.com/client/v4/accounts/"

\* src/index.ts registers three tools; its later revision registers five
Revisions == {"three tools", "five tools"}

----------------------------------------------------------------------------
(* The upstream, as axios delivers it *)

StatusText(status) ==
    CASE status = 200 -> "OK"
      [] status = 201 -> "Created"
      [] status = 204 -> "No Content"
      [] status = 404 -> "Not Found"
      [] status = 500 -> "Internal Server Error"
      [] OTHER -> ""

\* axios resolves a response whose status passes the default validateStatus
\* and rejects any other with an error that carries the response
Resolved(status, data) ==
    [kind |-> "resolved",
     response |-> [has |-> TRUE, status |-> status,
                   statusText |-> StatusText(status), data |-> data]]

HttpError(status, data) ==
    [kind |-> "rejected",
     error |-> [message |-> "Request failed with status code " \o ToString(status),
                response |-> [has |-> TRUE, status |-> status,
                              statusText |-> StatusText(status), data |-> data]]]

NetworkError(message) ==
    [kind |-> "rejected", error |-> NewError(message)]

OkStatuses == {200, 201, 204}
ErrStatuses == {404, 500}

\* bodies of the provider's error responses: { errors: [{ message }] }
ErrorBodies ==
    { [errors |-> <<>>],
      [errors |-> <<[message |-> Some("Authentication error")]>>],
      [errors |-> <<[message |-> Some("")]>>] }

Failures ==
    { HttpError(s, d) : s \in ErrStatuses, d \in ErrorBodies }
        \cup { NetworkError("Network Error") }

\* error.response?.data?.errors?.[0]?.message
ProviderMessage(error) ==
    IF error.response.has /\ "errors" \in DOMAIN error.response.data
       /\ Len(error.response.data.errors) > 0
    THEN error.response.data.errors[1].message
    ELSE None

\* the failure's own message, whatever the provider sent
RawMessageOnly(error) == error.message

\* (error as any).response?.data?.errors?.[0]?.message || (error as Error).message
BestEffortMessage(error) == OrElse(ProviderMessage(error), error.message)

\* the key without the account email
AuthHeadersKeyOnly == "X-Auth-Key" :> config.CLOUDFLARE_API_KEY

\* the credential header pair every provider call carries
AuthHeaders ==
    ("X-Auth-Email" :> config.CLOUDFLARE_EMAIL)
        @@ ("X-Auth-Key" :> config.CLOUDFLARE_API_KEY)

NoHeaders == [h \in {} |-> ""]

Request(method, url, headers, body) ==
    [method |-> method, url |-> url, headers |-> headers, body |-> body]

UUIDs == {"11111111-1111-4111-8111-111111111111",
          "22222222-2222-4222-8222-222222222222"}

----------------------------------------------------------------------------
(* fetchAudioAndSave *)

FetchAudioArgs ==
    { [text |-> t, lang |-> l] : t \in {None, Some("Hello")}, l \in {None, Some("es")} }

FetchAudioResponses ==
    { Resolved(200, [result |-> Some([audio |-> a])]) :
          a \in {None, Some(""), Some("SUQzBAAAAAAA")} }
        \cup { Resolved(200, [result |-> None]), Resolved(201, [result |-> None]),
               Resolved(201, [result |-> Some([audio |-> Some("SUQzBAAAAAAA")])]) }
        \cup Failures

\* response.data?.result?.audio
AudioOf(data) == IF data.result.has THEN data.result.v.audio ELSE None

\* any 2xx status taken for success
FetchAudioTryAny2xx(response, id) ==
    IF response.status >= 200 /\ response.status < 300
    THEN LET audioBase64 == AudioOf(response.data) IN
         IF audioBase64.has /\ audioBase64.v # ""
         THEN Return(ToolResult(<<
                  Text("Generated audio ID: " \o id),
                  Resource([uri |-> "data:audio/mp3;base64," \o audioBase64.v,
                            blob |-> audioBase64.v,
                            mimeType |-> "audio/mp3"]) >>))
         ELSE Throw(NewError("Audio data not found in the response."))
    ELSE Throw(NewError("Request failed: " \o ToString(response.status)
                            \o " - " \o response.statusText))

FetchAudioTry(response, id) ==
    IF response.status = 200
    THEN LET audioBase64 == AudioOf(response.data) IN
         IF audioBase64.has /\ audioBase64.v # ""
         THEN Return(ToolResult(<<
                  Text("Generated audio ID: " \o id),
                  Resource([uri |-> "data:audio/mp3;base64," \o audioBase64.v,
                            blob |-> audioBase64.v,
                            mimeType |-> "audio/mp3"]) >>))
         ELSE Throw(NewError("Audio data not found in the response."))
    ELSE Throw(NewError("Request failed: " \o ToString(response.status)
                            \o " - " \o response.statusText))

\* the handler of src/index.ts: the resource is { media_type, data, name }
FetchAudioTryThreeTools(response, id) ==
    IF response.status = 200
    THEN LET audioBase64 == AudioOf(response.data) IN
         IF audioBase64.has /\ audioBase64.v # ""
         THEN Return(ToolResult(<<
                  Text("Generated audio ID: " \o id),
                  Resource([media_type |-> "audio/mp3",
                            data |-> audioBase64.v,
                            name |-> id \o ".mp3"]) >>))
         ELSE Throw(NewError("Audio data not found in the response."))
    ELSE Throw(NewError("Request failed: " \o ToString(response.status)
                            \o " - " \o response.statusText))

\* a catch that lets the failure escape
FetchAudioCatchRethrows(error) == Throw(error)

FetchAudioCatch(error) ==
    Return(ToolResult(<< Text("Error: " \o BestEffortMessage(error)) >>))

FetchAudioRequest(a) ==
    Request("POST",
            ApiBase \o config.CLOUDFLARE_ACCOUNT_ID \o "/ai/run/@cf/myshell-ai/melotts",
            ("Content-Type" :> "application/json") @@ AuthHeaders,
            [prompt |-> OrElse(a.text, ""), lang |-> OrElse(a.lang, "en")])

----------------------------------------------------------------------------
(* summarizeText *)

SummarizeArgs == { [text |-> t] : t \in {"", "A long article."} }

SummarizeResponses ==
    { Resolved(200, [result |-> Some([summary |-> s])]) :
          s \in {None, Some(""), Some("Short.")} }
        \cup { Resolved(200, [result |-> None]), Resolved(204, [result |-> None]) }
        \cup Failures

\* response.data?.result?.summary
SummaryOf(data) == IF data.result.has THEN data.result.v.summary ELSE None

\* a summary that is present taken for success, the empty one too
SummarizeTryAcceptsEmpty(response) ==
    IF response.status = 200
    THEN LET summary == SummaryOf(response.data) IN
         IF summary.has
         THEN Return(ToolResult(<< Text(summary.v) >>))
         ELSE Throw(NewError("Summary data not found in the response."))
    ELSE Throw(NewError("Request failed: " \o ToString(response.status)
                            \o " - " \o response.statusText))

SummarizeTry(response) ==
    IF response.status = 200
    THEN LET summary == SummaryOf(response.data) IN
         IF summary.has /\ summary.v # ""
         THEN Return(ToolResult(<< Text(summary.v) >>))
         ELSE Throw(NewError("Summary data not found in the response."))
    ELSE Throw(NewError("Request failed: " \o ToString(response.status)
                            \o " - " \o response.statusText))

\* the message without the "Error: " in front of it
SummarizeCatchBare(error) ==
    Return(ToolResult(<< Text(BestEffortMessage(error)) >>))

SummarizeCatch(error) ==
    Return(ToolResult(<< Text("Error: " \o BestEffortMessage(error)) >>))

SummarizeRequest(a) ==
    Request("POST",
            ApiBase \o config.CLOUDFLARE_ACCOUNT_ID \o "/ai/run/@cf/facebook/bart-large-cnn",
            ("Content-Type" :> "application/json") @@ AuthHeaders,
            [input_text |-> a.text, max_tokens |-> 100])

----------------------------------------------------------------------------
(* JSON.stringify, on the values the handlers hand it *)

JStr(v) == [t |-> "string", v |-> v]
JNum(n) == [t |-> "number", n |-> n]
\* members in insertion order, each <<key, value>>
JObj(members) == [t |-> "object", members |-> members]

EscapeChar(c) ==
    CASE c = "\"" -> "\\\""
      [] c = "\\" -> "\\\\"
      [] c = "\n" -> "\\n"
      [] c = "\t" -> "\\t"
      [] OTHER -> c

RECURSIVE Escape(_)
Escape(s) ==
    IF Len(s) = 0 THEN ""
    ELSE EscapeChar(SubSeq(s, 1, 1)) \o Escape(SubSeq(s, 2, Len(s)))

Quote(s) == "\"" \o Escape(s) \o "\""

RECURSIVE JsonStringify(_)
RECURSIVE JsonMembers(_)
JsonMembers(members) ==
    IF Len(members) = 0 THEN ""
    ELSE Quote(members[1][1]) \o ":" \o JsonStringify(members[1][2])
            \o (IF Len(members) > 1 THEN "," ELSE "")
            \o JsonMembers(Tail(members))

JsonStringify(value) ==
    CASE value.t = "string" -> Quote(value.v)
      [] value.t = "number" -> ToString(value.n)
      [] value.t = "object" -> "{" \o JsonMembers(value.members) \o "}"

----------------------------------------------------------------------------
(* uploadAudioToR2 *)

UploadArgs ==
    { [fileData |-> d, fileName |-> n, contentType |-> c] :
          d \in {"UklGRiQAAABXQVZF", "SUQzBAAAAAAA", "UklG", "AAAAUklGR"},
          n \in {None, Some(""), Some("clip.bin")},
          c \in {None, Some(""), Some("audio/x-wav"), Some("audio/ogg")} }

UploadResponses ==
    { Resolved(s, [errors |-> <<>>]) : s \in OkStatuses } \cup Failures

\* the signature looked at first, the declared type only without one
FinalContentTypeSignatureFirst(a) ==
    IF StartsWith(a.fileData, "UklGR") THEN "audio/wav"
    ELSE IF a.contentType.has /\ a.contentType.v # "" THEN a.contentType.v
    ELSE "audio/mp3"

\* the declared type, or the default when none is declared: no detection
FinalContentTypeUndetected(a) ==
    IF a.contentType.has /\ a.contentType.v # "" THEN a.contentType.v ELSE "audio/mp3"

\* contentType, or the type detected from the base64 header
FinalContentType(a) ==
    IF a.contentType.has /\ a.contentType.v # ""
    THEN a.contentType.v
    ELSE IF StartsWith(a.fileData, "UklGR") THEN "audio/wav" ELSE "audio/mp3"

\* the extension of the one type that is wav by name
ExtensionOfExactType(contentType) == IF contentType = "audio/wav" THEN "wav" ELSE "mp3"

Extension(contentType) == IF Contains(contentType, "wav") THEN "wav" ELSE "mp3"

FinalFileName(a, id) ==
    OrElse(a.fileName, "audio-" \o id \o "." \o Extension(FinalContentType(a)))

\* Buffer.from(fileData, 'base64').length, for unpadded base64
BufferLength(fileData) == (Len(fileData) * 3) \div 4

UploadRequest(a, id) ==
    Request("PUT",
            ApiBase \o config.CLOUDFLARE_ACCOUNT_ID \o "/r2/buckets/uploads/objects/"
                \o FinalFileName(a, id),
            ("Content-Type" :> FinalContentType(a)) @@ AuthHeaders
                @@ ("Content-Length" :> ToString(BufferLength(a.fileData))),
            [buffer |-> a.fileData])

\* the blob encoded again from the decoded buffer, which holds whole quads
UploadTryReencodes(response, a, fileName, contentType) ==
    IF response.status = 200 \/ response.status = 201
    THEN LET fileUrl == config.R2_URL \o "/" \o fileName IN
         Return(ToolResult(<<
             Text("File successfully uploaded to R2 storage.\nFile: " \o fileName
                     \o "\nURL: " \o fileUrl \o "\nType: " \o contentType),
             Resource([uri |-> fileUrl,
                       blob |-> SubSeq(a.fileData, 1, 4 * (Len(a.fileData) \div 4)),
                       mimeType |-> contentType]) >>))
    ELSE Throw(NewError("Upload failed: " \o ToString(response.status)
                            \o " - " \o response.statusText))

UploadTry(response, a, fileName, contentType) ==
    IF response.status = 200 \/ response.status = 201
    THEN LET fileUrl == config.R2_URL \o "/" \o fileName IN
         Return(ToolResult(<<
             Text("File successfully uploaded to R2 storage.\nFile: " \o fileName
                     \o "\nURL: " \o fileUrl \o "\nType: " \o contentType),
             Resource([uri |-> fileUrl, blob |-> a.fileData,
                       mimeType |-> contentType]) >>))
    ELSE Throw(NewError("Upload failed: " \o ToString(response.status)
                            \o " - " \o response.statusText))

UploadCatch(error) ==
    Return(ToolResult(<< Text("Error uploading to R2: " \o BestEffortMessage(error)) >>))

----------------------------------------------------------------------------
(* getFromCloudflareKV *)

KVArgs ==
    { [key |-> k, namespaceId |-> n] :
          k \in {"missing-key", "user profile"}, n \in {None, Some("ns1")} }

KVValues == { JStr("stored value"), JNum(42), JObj(<< <<"plan", JStr("pro")>> >>) }

KVResponses ==
    { Resolved(200, v) : v \in KVValues }
        \cup { Resolved(204, JStr("")) }
        \cup Failures

FinalNamespaceId(a) == OrElse(a.namespaceId, config.CLOUDFLARE_NAMESPACE_ID)

Unreserved ==
    {"a","b","c","d","e","f","g","h","i","j","k","l","m","n","o","p","q","r","s",
     "t","u","v","w","x","y","z","A","B","C","D","E","F","G","H","I","J","K","L",
     "M","N","O","P","Q","R","S","T","U","V","W","X","Y","Z","0","1","2","3","4",
     "5","6","7","8","9","-","_",".","!","~","*","'","(",")"}

PercentEncode(c) ==
    CASE c = " " -> "%20"
      [] c = "/" -> "%2F"
      [] c = ":" -> "%3A"
      [] c = "?" -> "%3F"
      [] c = "#" -> "%23"
      [] c = "%" -> "%25"

RECURSIVE EncodeURIComponent(_)
EncodeURIComponent(s) ==
    IF Len(s) = 0 THEN ""
    ELSE (IF SubSeq(s, 1, 1) \in Unreserved THEN SubSeq(s, 1, 1)
          ELSE PercentEncode(SubSeq(s, 1, 1)))
            \o EncodeURIComponent(SubSeq(s, 2, Len(s)))

KVRequest(a) ==
    Request("GET",
            ApiBase \o config.CLOUDFLARE_ACCOUNT_ID \o "/storage/kv/namespaces/"
                \o FinalNamespaceId(a) \o "/values/" \o EncodeURIComponent(a.key),
            AuthHeaders,
            [none |-> TRUE])

\* the miss worded as the generic failures are
NotFoundTextAsError(key) == "Error retrieving from Cloudflare KV: Key '" \o key \o "' not found"

NotFoundText(key) == "Key '" \o key \o "' not found in Cloudflare KV namespace."

\* typeof value === 'string' ? value : JSON.stringify(value)
ValueText(value) == IF value.t = "string" THEN value.v ELSE JsonStringify(value)

\* the resource put before the text that describes it
KVTryResourceFirst(response, a) ==
    IF response.status = 200
    THEN LET value == response.data IN
         Return(ToolResult(<<
             Resource([uri |-> "kv://" \o FinalNamespaceId(a) \o "/" \o a.key,
                       text |-> ValueText(value),
                       mimeType |-> "text/plain"]),
             Text("Successfully retrieved value from Cloudflare KV.\nKey: " \o a.key
                     \o "\nValue: " \o ValueText(value)) >>))
    ELSE IF response.status = 404
    THEN Return(ToolResult(<< Text(NotFoundText(a.key)) >>))
    ELSE Throw(NewError("Request failed: " \o ToString(response.status)
                            \o " - " \o response.statusText))

KVTry(response, a) ==
    IF response.status = 200
    THEN LET value == response.data IN
         Return(ToolResult(<<
             Text("Successfully retrieved value from Cloudflare KV.\nKey: " \o a.key
                     \o "\nValue: " \o ValueText(value)),
             Resource([uri |-> "kv://" \o FinalNamespaceId(a) \o "/" \o a.key,
                       text |-> ValueText(value),
                       mimeType |-> "text/plain"]) >>))
    ELSE IF response.status = 404
    THEN Return(ToolResult(<< Text(NotFoundText(a.key)) >>))
    ELSE Throw(NewError("Request failed: " \o ToString(response.status)
                            \o " - " \o response.statusText))

\* a catch without the special case for 404
KVCatchNo404(error, a) ==
    Return(ToolResult(<<
        Text("Error retrieving from Cloudflare KV: " \o BestEffortMessage(error)) >>))

KVCatch(error, a) ==
    IF error.response.has /\ error.response.status = 404
    THEN Return(ToolResult(<< Text(NotFoundText(a.key)) >>))
    ELSE Return(ToolResult(<<
             Text("Error retrieving from Cloudflare KV: " \o BestEffortMessage(error)) >>))

----------------------------------------------------------------------------
(* new URL(href, base).toString(), for links without query strings, dot    *)
(* segments, credentials or ports                                          *)

\* position of the first occurrence of the character c in s, 0 when absent
RECURSIVE IndexFrom(_, _, _)
IndexFrom(s, c, i) ==
    IF i > Len(s) THEN 0
    ELSE IF SubSeq(s, i, i) = c THEN i
    ELSE IndexFrom(s, c, i + 1)

IndexOf(s, c) == IndexFrom(s, c, 1)

RECURSIVE LastIndexFrom(_, _, _)
LastIndexFrom(s, c, i) ==
    IF i < 1 THEN 0
    ELSE IF SubSeq(s, i, i) = c THEN i
    ELSE LastIndexFrom(s, c, i - 1)

LastIndexOf(s, c) == LastIndexFrom(s, c, Len(s))

SchemeChars ==
    {"a","b","c","d","e","f","g","h","i","j","k","l","m","n","o","p","q","r","s",
     "t","u","v","w","x","y","z","+","-","."}

\* length of the scheme that starts s, 0 when s starts with none
SchemeLength(s) ==
    LET colon == IndexOf(s, ":") IN
    IF colon > 1 /\ \A i \in 1..(colon - 1) : SubSeq(s, i, i) \in SchemeChars
    THEN colon - 1
    ELSE 0

SpecialSchemes == {"http", "https"}

InvalidURL == [ok |-> FALSE]

PathPart(s) ==
    LET hash == IndexOf(s, "#") IN IF hash = 0 THEN s ELSE SubSeq(s, 1, hash - 1)

HashPart(s) ==
    LET hash == IndexOf(s, "#") IN IF hash = 0 THEN "" ELSE SubSeq(s, hash, Len(s))

\* the part of a special URL after "scheme:", which is "//host/path#hash"
ParseAuthority(scheme, rest) ==
    IF ~StartsWith(rest, "//") THEN InvalidURL
    ELSE LET after == SubSeq(rest, 3, Len(rest))
             noHash == PathPart(after)
             slash == IndexOf(noHash, "/")
             host == IF slash = 0 THEN noHash ELSE SubSeq(noHash, 1, slash - 1)
             path == IF slash = 0 THEN "/" ELSE SubSeq(noHash, slash, Len(noHash))
         IN IF host = "" \/ Contains(host, " ") THEN InvalidURL
            ELSE [ok |-> TRUE, special |-> TRUE, scheme |-> scheme, host |-> host,
                  path |-> path, hash |-> HashPart(after)]

ParseAbsolute(s) ==
    LET n == SchemeLength(s) IN
    IF n = 0 THEN InvalidURL
    ELSE LET scheme == SubSeq(s, 1, n)
             rest == SubSeq(s, n + 2, Len(s))
         IN IF scheme \in SpecialSchemes THEN ParseAuthority(scheme, rest)
            ELSE [ok |-> TRUE, special |-> FALSE, scheme |-> scheme, host |-> "",
                  path |-> PathPart(rest), hash |-> HashPart(rest)]

Serialize(u) ==
    IF u.special THEN u.scheme \o "://" \o u.host \o u.path \o u.hash
    ELSE u.scheme \o ":" \o u.path \o u.hash

\* the directory of a path: up to and including its last "/"
Directory(path) == SubSeq(path, 1, LastIndexOf(path, "/"))

ResolveRelative(h, b) ==
    IF h = "" THEN [b EXCEPT !.hash = ""]
    ELSE IF StartsWith(h, "//") THEN ParseAuthority(b.scheme, h)
    ELSE IF StartsWith(h, "/") THEN [b EXCEPT !.path = PathPart(h), !.hash = HashPart(h)]
    ELSE IF StartsWith(h, "#") THEN [b EXCEPT !.hash = h]
    ELSE [b EXCEPT !.path = Directory(b.path) \o PathPart(h), !.hash = HashPart(h)]

TypeErrorInvalidURL == NewError("Invalid URL")

\* the href taken as it stands, the base left out
NewURLIgnoresBase(href, base) == Return(Trim(href))

NewURL(href, base) ==
    LET h == Trim(href)
        u == IF SchemeLength(h) > 0 THEN ParseAbsolute(h)
             ELSE LET b == ParseAbsolute(base) IN
                  IF b.ok /\ b.special THEN ResolveRelative(h, b) ELSE InvalidURL
    IN IF u.ok THEN Return(Serialize(u)) ELSE Throw(TypeErrorInvalidURL)

----------------------------------------------------------------------------
(* scrapeUrlAndSublinks *)

MaxAnchors == 7

\* the sublinks the loop may take: slice(0, 5)
MaxSublinks == 5

Min(a, b) == IF a < b THEN a ELSE b

ScrapeArgs ==
    { [url |-> u] :
          u \in {"https://example.test/", "https://example.test/docs/page", "example"} }

\* an HTML document: the text of its body and the href of each a[href],
\* in document order
Page(body, hrefs) == [body |-> body, hrefs |-> hrefs]

LinkLists ==
    { << "/a", "b", "https://other.test", "#top", "mailto:a@b.test", "/c", "d", "/e" >>,
      << "/a", "https://example.test/a", "b", "/b", "/docs/b", "/a", "c", "/c" >>,
      << "/a", "http://", "b", "/c", "http:// x", "d", "/e", "f" >> }

NoPage == Page("", << >>)

RootPages ==
    { Page("\n  Root page text \n", SubSeq(l, 1, k)) :
          l \in LinkLists, k \in 0..MaxAnchors }

\* the page a reachable URL serves: its text names the URL, and it links on
SubPage(url) == Page(" Text of " \o url \o "\n", << "/deeper", "https://far.test/" >>)

RootResponses(url) ==
    IF ~ParseAbsolute(url).ok THEN { NetworkError("Invalid URL") }
    ELSE { Resolved(200, p) : p \in RootPages } \cup Failures

SubResponses(url) ==
    { Resolved(200, SubPage(url)), HttpError(404, [errors |-> <<>>]),
      NetworkError("Network Error") }

\* every a[href] of the page taken, however many
SublinksUnsliced(data) == data.hrefs

\* cheerio.load(data)("body").text().trim()
BodyText(data) == Trim(data.body)

\* $("a[href]").slice(0, 5).map((_, el) => $(el).attr("href")).get()
Sublinks(data) == SubSeq(data.hrefs, 1, Min(Len(data.hrefs), MaxSublinks))

HasKey(texts, k) == \E i \in 1..Len(texts) : texts[i][1] = k

\* an assignment that leaves a known key as it is
SetKeyKeepsFirst(texts, k, v) ==
    IF HasKey(texts, k) THEN texts ELSE Append(texts, <<k, v>>)

\* an assignment that moves a known key behind all the others
SetKeyMovesLast(texts, k, v) ==
    LET Other(entry) == entry[1] # k IN Append(SelectSeq(texts, Other), <<k, v>>)

\* a mapping that is started afresh at every assignment
SetKeyAfresh(texts, k, v) == << <<k, v>> >>

\* sublinkTexts[k] = v: a new key goes last, a known key keeps its place
SetKey(texts, k, v) ==
    IF HasKey(texts, k)
    THEN [i \in 1..Len(texts) |-> IF texts[i][1] = k THEN <<k, v>> ELSE texts[i]]
    ELSE Append(texts, <<k, v>>)

ValueOf(texts, k) == texts[CHOOSE i \in 1..Len(texts) : texts[i][1] = k][2]

Keys(texts) == { texts[i][1] : i \in 1..Len(texts) }

\* the value the per-link try/catch stores for one fetch
SublinkValue(response) ==
    IF response.kind = "resolved" THEN BodyText(response.response.data)
    ELSE "Error fetching sublink: " \o response.error.message

ScrapeReturn(url, text, texts) ==
    Return(ToolResult(<<
        Resource([text |-> JsonStringify(JObj(<<
                      <<"main_url", JStr(url)>>,
                      <<"main_text", JStr(text)>>,
                      <<"sublinks",
                        JObj([i \in 1..Len(texts) |-> <<texts[i][1], JStr(texts[i][2])>>])>> >>)),
                  uri |-> url]) >>))

\* a failure answered with a crawl result that holds nothing
ScrapeCatchEmptyCrawl(error) ==
    Return(ToolResult(<<
        Resource([text |-> JsonStringify(JObj(<<
                      <<"main_url", JStr("")>>,
                      <<"main_text", JStr("")>>,
                      <<"sublinks", JObj(<< >>)>> >>)),
                  uri |-> ""]) >>))

ScrapeCatch(error) ==
    Return(ToolResult(<< Text("Error: " \o error.message) >>))

----------------------------------------------------------------------------
(* The handlers as steps between suspension points *)

NoArgs == [none |-> TRUE]

uploadVars == <<finalContentType, finalFileName>>
crawlVars == <<rootData, mainText, sublinks, idx, sublinkUrl, sublinkTexts, attempts>>

\* const response = await axios...: a rejection is thrown at the await
Await(outcome) ==
    IF outcome.kind = "rejected" THEN Throw(outcome.error) ELSE Return(outcome.response)

\* the handler's promise settles: fulfilled with a ToolResult, or rejected
Settle(completion) ==
    /\ pc' = IF completion.threw THEN "rejected" ELSE "done"
    /\ result' = IF completion.threw THEN NoResult ELSE completion.value

\* what the try block of each single-request handler yields
FetchAudioBody(outcome, id) ==
    LET got == Await(outcome) IN
    IF got.threw THEN got
    ELSE IF revision = "three tools" THEN FetchAudioTryThreeTools(got.value, id)
    ELSE FetchAudioTry(got.value, id)

SummarizeBody(outcome) ==
    LET got == Await(outcome) IN
    IF got.threw THEN got ELSE SummarizeTry(got.value)

UploadBody(outcome, a, fileName, contentType) ==
    LET got == Await(outcome) IN
    IF got.threw THEN got ELSE UploadTry(got.value, a, fileName, contentType)

KVBody(outcome, a) ==
    LET got == Await(outcome) IN
    IF got.threw THEN got ELSE KVTry(got.value, a)

\* try { ... } catch (error) { ... } of each handler
FetchAudioHandler(outcome, id) ==
    LET body == FetchAudioBody(outcome, id) IN
    IF body.threw THEN FetchAudioCatch(body.error) ELSE body

SummarizeHandler(outcome) ==
    LET body == SummarizeBody(outcome) IN
    IF body.threw THEN SummarizeCatch(body.error) ELSE body

UploadHandler(outcome, a, fileName, contentType) ==
    LET body == UploadBody(outcome, a, fileName, contentType) IN
    IF body.threw THEN UploadCatch(body.error) ELSE body

KVHandler(outcome, a) ==
    LET body == KVBody(outcome, a) IN
    IF body.threw THEN KVCatch(body.error, a) ELSE body

ScrapeOuterCatch(thrown) == ScrapeCatch(thrown.error)

Start(name, a, request) ==
    /\ pc = "idle"
    /\ tool' = name
    /\ args' = a
    /\ requests' = << request >>
    /\ UNCHANGED <<config, revision, calls, frames, upstream, caught, result, audioId>>

\* what the outer catch of the invocation received, if it ran
Caught(body) == IF body.threw THEN body.error ELSE NoError

InvokeFetchAudio(a) ==
    /\ Start("fetchAudioAndSave", a, FetchAudioRequest(a))
    /\ pc' = "await"
    /\ UNCHANGED <<uploadVars, crawlVars>>

RespondFetchAudio(outcome, id) ==
    /\ pc = "await" /\ tool = "fetchAudioAndSave"
    /\ upstream' = outcome
    /\ Settle(FetchAudioHandler(outcome, id))
    /\ caught' = Caught(FetchAudioBody(outcome, id))
    /\ audioId' = IF FetchAudioBody(outcome, id).threw THEN "" ELSE id
    /\ UNCHANGED <<config, revision, calls, frames, tool, args, requests, uploadVars, crawlVars>>

InvokeSummarize(a) ==
    /\ Start("summarizeText", a, SummarizeRequest(a))
    /\ pc' = "await"
    /\ UNCHANGED <<uploadVars, crawlVars>>

RespondSummarize(outcome) ==
    /\ pc = "await" /\ tool = "summarizeText"
    /\ upstream' = outcome
    /\ Settle(SummarizeHandler(outcome))
    /\ caught' = Caught(SummarizeBody(outcome))
    /\ UNCHANGED <<config, revision, calls, frames, tool, args, requests, audioId, uploadVars, crawlVars>>

InvokeUpload(a, id) ==
    /\ revision = "five tools"
    /\ Start("uploadAudioToR2", a, UploadRequest(a, id))
    /\ finalContentType' = FinalContentType(a)
    /\ finalFileName' = FinalFileName(a, id)
    /\ pc' = "await"
    /\ UNCHANGED crawlVars

RespondUpload(outcome) ==
    /\ pc = "await" /\ tool = "uploadAudioToR2"
    /\ upstream' = outcome
    /\ Settle(UploadHandler(outcome, args, finalFileName, finalContentType))
    /\ caught' = Caught(UploadBody(outcome, args, finalFileName, finalContentType))
    /\ UNCHANGED <<config, revision, calls, frames, tool, args, requests, audioId, uploadVars, crawlVars>>

InvokeKV(a) ==
    /\ revision = "five tools"
    /\ Start("getFromCloudflareKV", a, KVRequest(a))
    /\ pc' = "await"
    /\ UNCHANGED <<uploadVars, crawlVars>>

RespondKV(outcome) ==
    /\ pc = "await" /\ tool = "getFromCloudflareKV"
    /\ upstream' = outcome
    /\ Settle(KVHandler(outcome, args))
    /\ caught' = Caught(KVBody(outcome, args))
    /\ UNCHANGED <<config, revision, calls, frames, tool, args, requests, audioId, uploadVars, crawlVars>>

InvokeScrape(a) ==
    /\ Start("scrapeUrlAndSublinks", a, Request("GET", a.url, NoHeaders, NoArgs))
    /\ pc' = "awaitRoot"
    /\ UNCHANGED <<uploadVars, crawlVars>>

\* the for loop from its i-th completed iteration up to the next await, or
\* to the return; new URL(sublink, url) is inside the outer try only
LoopStep(links, i, text, texts) ==
    IF i = Len(links)
    THEN /\ Settle(ScrapeReturn(args.url, text, texts))
         /\ idx' = i
         /\ UNCHANGED <<caught, sublinkUrl, requests>>
    ELSE LET resolved == NewURL(links[i + 1], args.url) IN
         IF resolved.threw
         THEN /\ Settle(ScrapeOuterCatch(resolved))
              /\ caught' = resolved.error
              /\ idx' = i
              /\ UNCHANGED <<sublinkUrl, requests>>
         ELSE /\ pc' = "awaitSub"
              /\ sublinkUrl' = resolved.value
              /\ requests' = Append(requests, Request("GET", resolved.value, NoHeaders, NoArgs))
              /\ idx' = i + 1
              /\ UNCHANGED <<caught, result>>

RespondRoot(outcome) ==
    /\ pc = "awaitRoot"
    /\ upstream' = outcome
    /\ LET got == Await(outcome) IN
       IF got.threw
       THEN /\ Settle(ScrapeOuterCatch(got))
            /\ caught' = got.error
            /\ UNCHANGED <<requests, crawlVars>>
       ELSE /\ rootData' = got.value.data
            /\ mainText' = BodyText(got.value.data)
            /\ sublinks' = Sublinks(got.value.data)
            /\ LoopStep(Sublinks(got.value.data), 0, BodyText(got.value.data), << >>)
            /\ UNCHANGED <<sublinkTexts, attempts>>
    /\ UNCHANGED <<config, revision, calls, frames, tool, args, audioId, uploadVars>>

\* a crawl that goes on to the first anchor of every sublink's page
RespondSubFollowsAnchors(outcome) ==
    /\ pc = "awaitSub"
    /\ LET value == SublinkValue(outcome)
           texts == SetKey(sublinkTexts, sublinkUrl, value)
       IN /\ sublinkTexts' = texts
          /\ attempts' = Append(attempts, [url |-> sublinkUrl,
                                           failed |-> outcome.kind = "rejected",
                                           value |-> value])
          /\ IF /\ outcome.kind = "resolved"
                /\ Len(requests) = 1 + idx
                /\ Len(outcome.response.data.hrefs) > 0
                /\ ~NewURL(outcome.response.data.hrefs[1], sublinkUrl).threw
             THEN LET deeper == NewURL(outcome.response.data.hrefs[1], sublinkUrl).value
                  IN /\ sublinkUrl' = deeper
                     /\ requests' = Append(requests, Request("GET", deeper, NoHeaders, NoArgs))
                     /\ UNCHANGED <<pc, idx, caught, result>>
             ELSE LoopStep(sublinks, idx, mainText, texts)
    /\ UNCHANGED <<config, revision, calls, frames, tool, args, upstream, audioId, uploadVars,
                   rootData, mainText, sublinks>>

\* a failed sublink fetch issued once more before its error is stored
RespondSubRetries(outcome) ==
    /\ pc = "awaitSub"
    /\ IF /\ outcome.kind = "rejected"
          /\ Len(requests) = 1 + idx
       THEN /\ requests' = Append(requests, requests[Len(requests)])
            /\ UNCHANGED <<pc, result, caught, crawlVars>>
       ELSE LET value == SublinkValue(outcome)
                texts == SetKey(sublinkTexts, sublinkUrl, value)
            IN /\ sublinkTexts' = texts
               /\ attempts' = Append(attempts, [url |-> sublinkUrl,
                                                failed |-> outcome.kind = "rejected",
                                                value |-> value])
               /\ LoopStep(sublinks, idx, mainText, texts)
               /\ UNCHANGED <<rootData, mainText, sublinks>>
    /\ UNCHANGED <<config, revision, calls, frames, tool, args, upstream, audioId, uploadVars>>

RespondSub(outcome) ==
    /\ pc = "awaitSub"
    /\ LET value == SublinkValue(outcome)
           texts == SetKey(sublinkTexts, sublinkUrl, value)
       IN /\ sublinkTexts' = texts
          /\ attempts' = Append(attempts, [url |-> sublinkUrl,
                                           failed |-> outcome.kind = "rejected",
                                           value |-> value])
          /\ LoopStep(sublinks, idx, mainText, texts)
    /\ UNCHANGED <<config, revision, calls, frames, tool, args, upstream, audioId, uploadVars, rootData, mainText, sublinks>>

----------------------------------------------------------------------------
(* Invocations that overlap: each call of a handler runs between its      *)
(* awaits, and another call may run while it waits                        *)

Slots == {"first", "second"}

IdleCall ==
    [pc |-> "idle", tool |-> "", args |-> NoArgs, requests |-> << >>,
     received |-> << >>, result |-> NoResult]

\* the locals of scrapeUrlAndSublinks: mainText, sublinks, sublinkTexts,
\* the loop's position and its sublinkUrl
NoFrame ==
    [mainText |-> "", sublinks |-> << >>, idx |-> 0, sublinkUrl |-> "",
     sublinkTexts |-> << >>]

\* one set of locals for the module, whichever call uses them
FrameOfModule(s) == "first"

\* const and let inside the async handler: every call has locals of its own
FrameOf(s) == s

ConcScrapeArgs ==
    { [url |-> u] : u \in {"https://example.test/", "https://other.test/docs/"} }

ConcKVArgs == { [key |-> k, namespaceId |-> None] : k \in {"missing-key", "user profile"} }

ConcRootResponses ==
    { Resolved(200, Page(" Root ", l)) : l \in { << "/a", "b" >>, << "/a", "http://" >> } }
        \cup { NetworkError("Network Error") }

ConcKVResponses ==
    { Resolved(200, JStr("stored value")), HttpError(404, [errors |-> <<>>]),
      HttpError(500, [errors |-> <<[message |-> Some("Authentication error")]>>]),
      NetworkError("Network Error") }

\* what a call leaves alone: the configuration and the state of the other handlers
otherVars ==
    <<config, revision, pc, tool, args, requests, upstream, caught, result, audioId, uploadVars, crawlVars>>

CallInvoke(s, name, a, request) ==
    /\ calls[s].pc = "idle"
    /\ calls' = [calls EXCEPT ![s] =
                    [pc |-> IF name = "scrapeUrlAndSublinks" THEN "awaitRoot" ELSE "await",
                     tool |-> name, args |-> a, requests |-> << request >>,
                     received |-> << >>, result |-> NoResult]]
    /\ UNCHANGED <<frames, otherVars>>

CallInvokeKV(s, a) ==
    /\ revision = "five tools"
    /\ CallInvoke(s, "getFromCloudflareKV", a, KVRequest(a))

CallRespondKV(s, outcome) ==
    /\ calls[s].pc = "await" /\ calls[s].tool = "getFromCloudflareKV"
    /\ calls' = [calls EXCEPT ![s].pc = "done",
                              ![s].received = << outcome >>,
                              ![s].result = KVHandler(outcome, calls[s].args).value]
    /\ UNCHANGED <<frames, otherVars>>

CallInvokeScrape(s, a) ==
    CallInvoke(s, "scrapeUrlAndSublinks", a, Request("GET", a.url, NoHeaders, NoArgs))

\* the for loop of call s from its i-th completed iteration to the next
\* await or to the return, on the locals the call finds in its frame
CallLoopStep(s, outcome, locals, i) ==
    LET url == calls[s].args.url
        got == [calls[s] EXCEPT !.received = Append(@, outcome)]
    IN IF i = Len(locals.sublinks)
       THEN /\ calls' = [calls EXCEPT ![s] =
                   [got EXCEPT !.pc = "done",
                               !.result = ScrapeReturn(url, locals.mainText,
                                                       locals.sublinkTexts).value]]
            /\ frames' = [frames EXCEPT ![FrameOf(s)] = [locals EXCEPT !.idx = i]]
       ELSE LET resolved == NewURL(locals.sublinks[i + 1], url) IN
            IF resolved.threw
            THEN /\ calls' = [calls EXCEPT ![s] =
                        [got EXCEPT !.pc = "done",
                                    !.result = ScrapeOuterCatch(resolved).value]]
                 /\ frames' = [frames EXCEPT ![FrameOf(s)] = [locals EXCEPT !.idx = i]]
            ELSE /\ calls' = [calls EXCEPT ![s] =
                        [got EXCEPT !.pc = "awaitSub",
                                    !.requests = Append(@, Request("GET", resolved.value,
                                                                   NoHeaders, NoArgs))]]
                 /\ frames' = [frames EXCEPT ![FrameOf(s)] =
                        [locals EXCEPT !.idx = i + 1, !.sublinkUrl = resolved.value]]

CallRespondRoot(s, outcome) ==
    /\ calls[s].pc = "awaitRoot"
    /\ UNCHANGED otherVars
    /\ LET got == Await(outcome) IN
       IF got.threw
       THEN /\ calls' = [calls EXCEPT ![s].pc = "done",
                                      ![s].received = << outcome >>,
                                      ![s].result = ScrapeOuterCatch(got).value]
            /\ UNCHANGED frames
       ELSE CallLoopStep(s, outcome,
                         [mainText |-> BodyText(got.value.data),
                          sublinks |-> Sublinks(got.value.data),
                          idx |-> 0, sublinkUrl |-> "", sublinkTexts |-> << >>],
                         0)

CallRespondSub(s, outcome) ==
    /\ calls[s].pc = "awaitSub"
    /\ UNCHANGED otherVars
    /\ LET frame == frames[FrameOf(s)]
           texts == SetKey(frame.sublinkTexts, frame.sublinkUrl, SublinkValue(outcome))
       IN CallLoopStep(s, outcome, [frame EXCEPT !.sublinkTexts = texts], frame.idx)

\* the result of call s is delivered and its locals are dropped
CallReturn(s) ==
    /\ calls[s].pc = "done"
    /\ calls' = [calls EXCEPT ![s] = IdleCall]
    /\ frames' = [frames EXCEPT ![FrameOf(s)] = NoFrame]
    /\ UNCHANGED otherVars

ConcNext ==
    \/ \E s \in Slots, a \in ConcKVArgs : CallInvokeKV(s, a)
    \/ \E s \in Slots, o \in ConcKVResponses : CallRespondKV(s, o)
    \/ \E s \in Slots, a \in ConcScrapeArgs : CallInvokeScrape(s, a)
    \/ \E s \in Slots, o \in ConcRootResponses : CallRespondRoot(s, o)
    \/ \E s \in Slots :
           /\ calls[s].pc = "awaitSub"
           /\ \E o \in SubResponses(frames[FrameOf(s)].sublinkUrl) : CallRespondSub(s, o)
    \/ \E s \in Slots : CallReturn(s)

----------------------------------------------------------------------------
\* the result is delivered; the next invocation starts from fresh locals
Reset ==
    /\ pc \in {"done", "rejected"}
    /\ pc' = "idle"
    /\ tool' = ""
    /\ args' = NoArgs
    /\ requests' = << >>
    /\ upstream' = NoOutcome
    /\ caught' = NoError
    /\ result' = NoResult
    /\ audioId' = ""
    /\ finalContentType' = ""
    /\ finalFileName' = ""
    /\ rootData' = NoPage
    /\ mainText' = ""
    /\ sublinks' = << >>
    /\ idx' = 0
    /\ sublinkUrl' = ""
    /\ sublinkTexts' = << >>
    /\ attempts' = << >>
    /\ UNCHANGED <<config, revision, calls, frames>>

Init ==
    /\ config \in { Config(env) : env \in Envs }
    /\ revision \in Revisions
    /\ pc = "idle"
    /\ tool = ""
    /\ args = NoArgs
    /\ requests = << >>
    /\ upstream = NoOutcome
    /\ caught = NoError
    /\ result = NoResult
    /\ audioId = ""
    /\ finalContentType = ""
    /\ finalFileName = ""
    /\ rootData = NoPage
    /\ mainText = ""
    /\ sublinks = << >>
    /\ idx = 0
    /\ sublinkUrl = ""
    /\ sublinkTexts = << >>
    /\ attempts = << >>
    /\ calls = [s \in Slots |-> IdleCall]
    /\ frames = [s \in Slots |-> NoFrame]

Next ==
    \/ \E a \in FetchAudioArgs : InvokeFetchAudio(a)
    \/ \E o \in FetchAudioResponses, id \in UUIDs : RespondFetchAudio(o, id)
    \/ \E a \in SummarizeArgs : InvokeSummarize(a)
    \/ \E o \in SummarizeResponses : RespondSummarize(o)
    \/ \E a \in UploadArgs, id \in UUIDs : InvokeUpload(a, id)
    \/ \E o \in UploadResponses : RespondUpload(o)
    \/ \E a \in KVArgs : InvokeKV(a)
    \/ \E o \in KVResponses : RespondKV(o)
    \/ \E a \in ScrapeArgs : InvokeScrape(a)
    \/ pc = "awaitRoot" /\ \E o \in RootResponses(args.url) : RespondRoot(o)
    \/ pc = "awaitSub" /\ \E o \in SubResponses(sublinkUrl) : RespondSub(o)
    \/ Reset

Spec == Init /\ [][Next]_vars

\* the handler is resumed at the await it waits at: the awaited call has
\* responded or failed, and the handler goes on to its next await or returns
Resumed ==
    /\ pc \in {"await", "awaitRoot", "awaitSub"}
    /\ pc' \in {"awaitSub", "done", "rejected"}
    /\ idx' \in {idx, idx + 1}

\* the handlers where every outbound call eventually responds or fails
LiveSpec == Init /\ [][Next]_vars /\ WF_<<pc, idx>>(Resumed)

\* the handlers with calls that overlap at their awaits
ConcSpec == Init /\ [][ConcNext]_vars

----------------------------------------------------------------------------
(* Properties *)

Done == pc = "done"

IsItem(item) ==
    \/ item.type = "text" /\ DOMAIN item = {"type", "text"}
    \/ item.type = "resource" /\ DOMAIN item = {"type", "resource"}

\* the root fetch of the crawl resolved
RootFetched == tool = "scrapeUrlAndSublinks" /\ upstream.kind = "resolved"

\* the call returned the crawl result whose links mapping is texts
ReturnsCrawl(texts) ==
    /\ Done /\ tool = "scrapeUrlAndSublinks"
    /\ result.content =
         << Resource([text |-> JsonStringify(JObj(<<
                          <<"main_url", JStr(args.url)>>,
                          <<"main_text", JStr(Trim(rootData.body))>>,
                          <<"sublinks",
                            JObj([i \in 1..Len(texts) |-> <<texts[i][1], JStr(texts[i][2])>>])>> >>)),
                      uri |-> args.url]) >>

\* the last fetch of url among the attempts
LastAttempt(url) ==
    attempts[CHOOSE i \in 1..Len(attempts) :
                 /\ attempts[i].url = url
                 /\ \A j \in (i + 1)..Len(attempts) : attempts[j].url # url]

\* C1: for every tool and every schema-valid input, whatever the upstream
\* does, the handler never rejects and returns a ToolResult whose content
\* is a non-empty sequence of Text and Resource items.
C1_NeverRejects ==
    /\ pc # "rejected"
    /\ Done => /\ Len(result.content) >= 1
               /\ \A i \in 1..Len(result.content) : IsItem(result.content[i])

\* a status 200 whose payload field is missing ended as an error result
C1_Witness ==
    /\ Done /\ tool = "fetchAudioAndSave"
    /\ upstream.kind = "resolved" /\ upstream.response.status = 200
    /\ ~upstream.response.data.result.has
    /\ Len(result.content) = 1

\* C2 as stated: in a returned crawl, every attempted sublink has an entry
\* that holds that sublink's own text or own error, so the entry of a failed
\* sublink holds its error description, and the root text is populated.
C2_OwnEntryAsStated ==
    ReturnsCrawl(sublinkTexts) =>
        \A i \in 1..Len(attempts) :
            /\ HasKey(sublinkTexts, attempts[i].url)
            /\ ValueOf(sublinkTexts, attempts[i].url) = attempts[i].value

\* C2 as amended: while the crawl runs and when it returns, the links
\* mapping has exactly the attempted URLs as keys, each holding the outcome
\* of the last fetch of that URL: the text of its page, or "Error fetching
\* sublink: " and the failure's message.  A failed sublink's entry holds its
\* error unless a later sublink resolves to the same URL; the entries of
\* other URLs are as their own fetches left them.
C2_Isolation ==
    tool = "scrapeUrlAndSublinks" =>
        /\ Keys(sublinkTexts) = { attempts[i].url : i \in 1..Len(attempts) }
        /\ \A k \in Keys(sublinkTexts) :
               /\ ValueOf(sublinkTexts, k) = LastAttempt(k).value
               /\ LastAttempt(k).failed =>
                      StartsWith(ValueOf(sublinkTexts, k), "Error fetching sublink: ")
               /\ ~LastAttempt(k).failed =>
                      ValueOf(sublinkTexts, k) = "Text of " \o k
        /\ (Done /\ caught = NoError) => ReturnsCrawl(sublinkTexts)

\* a crawl returned in which one sublink failed and two others, fetched
\* before and after it, kept their texts
C2_Witness ==
    /\ ReturnsCrawl(sublinkTexts)
    /\ \E i, j, k \in 1..Len(attempts) :
           /\ i < j /\ j < k
           /\ ~attempts[i].failed /\ attempts[j].failed /\ ~attempts[k].failed
           /\ ValueOf(sublinkTexts, attempts[i].url) = "Text of " \o attempts[i].url
           /\ ValueOf(sublinkTexts, attempts[k].url) = "Text of " \o attempts[k].url
           /\ StartsWith(ValueOf(sublinkTexts, attempts[j].url), "Error fetching sublink: ")

\* C3: whenever the root fetch succeeds, the call returns the crawl
\* Resource result, whatever the first 5 hrefs contain.
C3_RootSuccessReturnsCrawl ==
    (Done /\ RootFetched) =>
        /\ Len(result.content) = 1
        /\ result.content[1].type = "resource"

\* C4: with K anchors in the root page the crawler attempts exactly
\* min(K, 5) sublink fetches, those of the first anchors in document order,
\* even when earlier sublink fetches fail.
C4_FanOutExact ==
    (Done /\ RootFetched) =>
        LET n == Min(Len(rootData.hrefs), 5) IN
        /\ Len(attempts) = n
        /\ Len(requests) = 1 + n
        /\ \A i \in 1..n :
               NewURL(rootData.hrefs[i], args.url) = Return(requests[i + 1].url)

IsAbsoluteURL(k) ==
    \E scheme \in {"https://", "http://", "mailto:"} :
        StartsWith(k, scheme) /\ Len(k) > Len(scheme)

FirstFive == 1..5

\* C5 as stated: for a root page with more than 5 anchors the links mapping
\* of the returned crawl has exactly 5 keys, each an absolute URL that is
\* the resolution of one of the first 5 hrefs against the root URL.
C5_FiveKeysAsStated ==
    (ReturnsCrawl(sublinkTexts) /\ Len(rootData.hrefs) > 5) =>
        /\ Cardinality(Keys(sublinkTexts)) = 5
        /\ \A k \in Keys(sublinkTexts) :
               /\ IsAbsoluteURL(k)
               /\ \E i \in FirstFive : NewURL(rootData.hrefs[i], args.url) = Return(k)

\* C5 as amended: for a root page with more than 5 anchors the keys of the
\* returned links mapping are exactly the absolute URLs that the first 5
\* hrefs resolve to against the root URL, one key per distinct URL: at most
\* 5 keys, and 5 when the five resolve to different URLs.
C5_KeysAreResolvedFirstFive ==
    (ReturnsCrawl(sublinkTexts) /\ Len(rootData.hrefs) > 5) =>
        LET urls == { requests[i + 1].url : i \in FirstFive } IN
        /\ Len(requests) = 6
        /\ \A i \in FirstFive :
               NewURL(rootData.hrefs[i], args.url) = Return(requests[i + 1].url)
        /\ Keys(sublinkTexts) = urls
        /\ Len(sublinkTexts) = Cardinality(urls)
        /\ Cardinality(urls) <= 5
        /\ \A k \in Keys(sublinkTexts) : IsAbsoluteURL(k)

\* a page of 7 anchors whose first 5 resolve to 5 different URLs, some of
\* them relative in the page, was crawled to 5 keys
C5_Witness ==
    /\ ReturnsCrawl(sublinkTexts)
    /\ Len(rootData.hrefs) = 7
    /\ Cardinality(Keys(sublinkTexts)) = 5
    /\ \E i \in FirstFive : ~IsAbsoluteURL(rootData.hrefs[i])

\* the status the upstream answered with, 0 when it did not answer
UpstreamStatus ==
    IF upstream.kind = "resolved" THEN upstream.response.status
    ELSE IF upstream.kind = "rejected" /\ upstream.error.response.has
    THEN upstream.error.response.status
    ELSE 0

\* C6: getFromCloudflareKV answers an upstream 404, delivered as a response
\* or as a thrown HTTP error, with the single Text "Key '<key>' not found in
\* Cloudflare KV namespace.", and any other status but 200 with a single
\* Text that contains "Error".
C6_NotFoundOrError ==
    /\ (Done /\ tool = "getFromCloudflareKV" /\ UpstreamStatus = 404) =>
           result.content =
               << Text("Key '" \o args.key \o "' not found in Cloudflare KV namespace.") >>
    /\ (Done /\ tool = "getFromCloudflareKV" /\ UpstreamStatus \notin {0, 200, 404}) =>
           /\ Len(result.content) = 1
           /\ result.content[1].type = "text"
           /\ Contains(result.content[1].text, "Error")
    /\ \A a \in KVArgs, body \in ErrorBodies :
           KVHandler(Resolved(404, body), a) =
               Return(ToolResult(<<
                   Text("Key '" \o a.key \o "' not found in Cloudflare KV namespace.") >>))

\* the lookup of missing-key met a thrown 404
C6_Witness ==
    /\ Done /\ tool = "getFromCloudflareKV" /\ args.key = "missing-key"
    /\ upstream.kind = "rejected" /\ UpstreamStatus = 404
    /\ result.content[1].text = "Key 'missing-key' not found in Cloudflare KV namespace."

\* a result with the free text of its messages left out
Shape(r) ==
    [i \in 1..Len(r.content) |->
        IF r.content[i].type = "text" THEN [type |-> "text"]
        ELSE [type |-> "resource", fields |-> DOMAIN r.content[i].resource]]

\* the failures of the key-value read that are not a 404
OtherKVFailures ==
    { f \in Failures : ~(f.error.response.has /\ f.error.response.status = 404) }

\* C7 as stated: the not-found result of the key-value read differs from
\* every generic-failure result in something other than the text of its
\* message.
C7_DistinctWithoutTextAsStated ==
    (Done /\ tool = "getFromCloudflareKV" /\ UpstreamStatus = 404) =>
        \A f \in OtherKVFailures :
            Shape(result) # Shape(KVHandler(f, args).value)

\* C7 as amended: the not-found result and every generic-failure result of
\* the key-value read have the same shape, a single Text item, and differ
\* in the text alone: the not-found text is "Key '<key>' not found in
\* Cloudflare KV namespace." and the generic text starts with "Error
\* retrieving from Cloudflare KV: ", so the texts of the two never agree.
C7_DistinctByTextOnly ==
    (Done /\ tool = "getFromCloudflareKV" /\ UpstreamStatus = 404) =>
        \A f \in OtherKVFailures :
            LET other == KVHandler(f, args).value IN
            /\ Shape(result) = Shape(other)
            /\ Shape(result) = << [type |-> "text"] >>
            /\ StartsWith(result.content[1].text, "Key '")
            /\ ~StartsWith(result.content[1].text, "Error")
            /\ StartsWith(other.content[1].text, "Error retrieving from Cloudflare KV: ")

\* a lookup met a 404 whose error body carried a provider message
C7_Witness ==
    /\ Done /\ tool = "getFromCloudflareKV" /\ UpstreamStatus = 404
    /\ ProviderMessage(upstream.error) = Some("Authentication error")
    /\ Len(result.content) = 1

\* the first entry of the errors list in the response a failure carries
FirstProviderMessages(error) ==
    IF /\ error.response.has
       /\ Len(error.response.data.errors) > 0
       /\ error.response.data.errors[1].message.has
    THEN { error.response.data.errors[1].message.v }
    ELSE {}

\* the messages a failure offers: its own, and the provider's
MessagesOf(error) == { error.message } \cup FirstProviderMessages(error)

\* the caught failure was a 404 of the key-value read
CaughtKVMiss ==
    /\ tool = "getFromCloudflareKV"
    /\ caught.response.has /\ caught.response.status = 404

\* C9 as stated: whenever a handler's awaited operation fails, the result
\* is one Text item whose text is "Error: " immediately followed by the
\* message, for all five tools.
C9_UniformPrefixAsStated ==
    (Done /\ caught # NoError) =>
        \E m \in MessagesOf(caught) : result.content = << Text("Error: " \o m) >>

\* C9 as amended: whenever a handler's awaited operation fails, the result
\* is one Text item.  Its text is the tool's prefix immediately followed by
\* the message: "Error: " for fetchAudioAndSave, summarizeText and
\* scrapeUrlAndSublinks, "Error uploading to R2: " for uploadAudioToR2 and
\* "Error retrieving from Cloudflare KV: " for getFromCloudflareKV, whose
\* 404 yields "Key '<key>' not found in Cloudflare KV namespace." instead.
C9_PrefixPerTool ==
    (Done /\ caught # NoError) =>
        LET prefix == CASE tool = "uploadAudioToR2" -> "Error uploading to R2: "
                        [] tool = "getFromCloudflareKV" ->
                               "Error retrieving from Cloudflare KV: "
                        [] OTHER -> "Error: "
        IN IF CaughtKVMiss
           THEN result.content =
                    << Text("Key '" \o args.key \o "' not found in Cloudflare KV namespace.") >>
           ELSE \E m \in MessagesOf(caught) : result.content = << Text(prefix \o m) >>

\* an upload failed and its result starts with the upload's own prefix
C9_Witness ==
    /\ Done /\ tool = "uploadAudioToR2" /\ caught # NoError
    /\ StartsWith(result.content[1].text, "Error uploading to R2: ")

\* the message the claim expects in the error result of a failure
PreferredMessage(error) ==
    IF \E m \in FirstProviderMessages(error) : m # ""
    THEN error.response.data.errors[1].message.v
    ELSE error.message

ErrorPrefixes ==
    { "Error: ", "Error uploading to R2: ", "Error retrieving from Cloudflare KV: " }

\* the handler answered a caught failure with an error result
ErrorResult ==
    /\ Done /\ caught # NoError
    /\ Len(result.content) = 1
    /\ result.content[1].type = "text"
    /\ StartsWith(result.content[1].text, "Error")

\* C10 as stated: for every tool, the message in the error result is the
\* provider's message, the first entry of the errors list of the upstream
\* response, whenever the failure carries one, and the failure's own
\* description only when it carries none.
C10_ProviderMessagePreferredAsStated ==
    ErrorResult =>
        \E p \in ErrorPrefixes :
            result.content[1].text = p \o PreferredMessage(caught)

\* C10 as amended: for fetchAudioAndSave, summarizeText, uploadAudioToR2
\* and getFromCloudflareKV the message in the error result is the first
\* entry of the errors list of the upstream response when the failure
\* carries a non-empty one, and the failure's own description otherwise;
\* for scrapeUrlAndSublinks it is always the failure's own description.
C10_ProviderMessagePreferred ==
    ErrorResult =>
        \E p \in ErrorPrefixes :
            result.content[1].text =
                p \o (IF tool = "scrapeUrlAndSublinks" THEN caught.message
                      ELSE PreferredMessage(caught))

\* a provider call failed with a provider message, which the result shows
C10_Witness ==
    /\ ErrorResult /\ tool = "fetchAudioAndSave"
    /\ FirstProviderMessages(caught) = { "Authentication error" }
    /\ result.content[1].text = "Error: Authentication error"

EndsWith(s, p) == Len(s) >= Len(p) /\ SubSeq(s, Len(s) - Len(p) + 1, Len(s)) = p

\* the payload starts with the five characters of the WAV signature
HasWavSignature(payload) ==
    Len(payload) >= 5 /\ SubSeq(payload, 1, 5) = "UklGR"

\* the upload returned its success result
Uploaded == Done /\ tool = "uploadAudioToR2" /\ caught = NoError

\* the object name was generated by the handler, none being supplied
NameGenerated == ~(args.fileName.has /\ args.fileName.v # "")

\* C11: in an upload with no declared type, a payload that begins with
\* "UklGR" resolves to mime type "audio/wav" and extension "wav", and every
\* other payload to "audio/mp3" and extension "mp3"; the request, the
\* generated object name and the returned resource carry them.
C11_SignatureDecidesType ==
    (tool = "uploadAudioToR2" /\ ~args.contentType.has) =>
        LET wav == HasWavSignature(args.fileData)
            mime == IF wav THEN "audio/wav" ELSE "audio/mp3"
            ext == IF wav THEN "wav" ELSE "mp3"
        IN /\ finalContentType = mime
           /\ requests[1].headers["Content-Type"] = mime
           /\ NameGenerated => EndsWith(finalFileName, "." \o ext)
           /\ Uploaded => result.content[2].resource.mimeType = mime

\* an undeclared WAV payload was stored as audio/wav under a .wav name
C11_Witness ==
    /\ Uploaded /\ ~args.contentType.has /\ ~args.fileName.has
    /\ args.fileData = "UklGRiQAAABXQVZF"
    /\ result.content[2].resource.mimeType = "audio/wav"
    /\ EndsWith(result.content[2].resource.uri, ".wav")

\* the extension of the object name, "" when the name has no dot
ExtensionOfName(name) ==
    LET dot == LastIndexOf(name, ".") IN
    IF dot = 0 THEN "" ELSE SubSeq(name, dot + 1, Len(name))

\* C12 as stated: the extension is decided by the resolved mime type
\* alone, "audio/wav" has "wav", "audio/mp3" has "mp3", every other type
\* has the default "mp3", and the stored object's name always ends in that
\* extension.
C12_NameEndsInExtensionAsStated ==
    tool = "uploadAudioToR2" =>
        LET ext == IF finalContentType = "audio/wav" THEN "wav" ELSE "mp3"
        IN EndsWith(finalFileName, "." \o ext)

\* C12 as amended: the extension is decided by the resolved mime type
\* alone: "wav" for a type whose name contains "wav" ("audio/wav",
\* "audio/x-wav"), "mp3" for every other type; the object name ends in that
\* extension when the handler generates it, and is the caller's fileName,
\* unchanged, when one is supplied.
C12_ExtensionFromMimeType ==
    tool = "uploadAudioToR2" =>
        LET ext == CASE finalContentType = "audio/wav" -> "wav"
                     [] finalContentType = "audio/x-wav" -> "wav"
                     [] finalContentType = "audio/mp3" -> "mp3"
                     [] finalContentType = "audio/ogg" -> "mp3"
        IN /\ NameGenerated =>
                  /\ \E id \in UUIDs : finalFileName = "audio-" \o id \o "." \o ext
                  /\ ExtensionOfName(finalFileName) = ext
           /\ ~NameGenerated => finalFileName = args.fileName.v
           /\ requests[1].url =
                  ApiBase \o config.CLOUDFLARE_ACCOUNT_ID
                      \o "/r2/buckets/uploads/objects/" \o finalFileName

\* an MP3 payload declared as audio/x-wav got a generated .wav name
C12_Witness ==
    /\ Uploaded /\ NameGenerated
    /\ args.fileData = "SUQzBAAAAAAA" /\ args.contentType = Some("audio/x-wav")
    /\ ExtensionOfName(finalFileName) = "wav"

\* the payload field of a resource: blob, or data in src/index.ts
PayloadOf(resource) ==
    IF "blob" \in DOMAIN resource THEN resource.blob ELSE resource.data

ProviderTools ==
    {"fetchAudioAndSave", "summarizeText", "uploadAudioToR2", "getFromCloudflareKV"}

\* C14: every invocation of fetchAudioAndSave, summarizeText,
\* uploadAudioToR2 and getFromCloudflareKV issues exactly one outbound
\* request, whatever its outcome; the crawler issues one for the root and
\* one per sublink occurrence it has come to, in document order, each after
\* the previous one has completed; no request is issued a second time.
C14_NoRetry ==
    /\ tool \in ProviderTools => Len(requests) = 1
    /\ tool = "scrapeUrlAndSublinks" =>
           /\ requests[1].url = args.url
           /\ Len(requests) = 1 + idx
           /\ idx <= Len(sublinks)
           /\ Len(attempts) = IF pc = "awaitSub" THEN idx - 1 ELSE idx
           /\ \A i \in 1..idx :
                  /\ NewURL(sublinks[i], args.url) = Return(requests[i + 1].url)
                  /\ i <= Len(attempts) => attempts[i].url = requests[i + 1].url

\* a crawl of five sublinks, one of which failed, made six requests
C14_Witness ==
    /\ ReturnsCrawl(sublinkTexts)
    /\ Len(attempts) = 5 /\ Len(requests) = 6
    /\ \E i \in 1..5 : attempts[i].failed

\* C15: every call to the provider's API carries the header X-Auth-Email
\* with the configured account email and the header X-Auth-Key with the
\* configured key, and no step changes the configured values.
C15_CredentialsFixed ==
    [][ /\ config' = config
        /\ tool' \in ProviderTools =>
               \A i \in 1..Len(requests') :
                   /\ {"X-Auth-Email", "X-Auth-Key"} \subseteq DOMAIN requests'[i].headers
                   /\ requests'[i].headers["X-Auth-Email"] = config.CLOUDFLARE_EMAIL
                   /\ requests'[i].headers["X-Auth-Key"] = config.CLOUDFLARE_API_KEY ]_vars

\* a key-value read went out with the credentials of the environment
C15_Witness ==
    /\ pc = "await" /\ tool = "getFromCloudflareKV"
    /\ requests[1].headers["X-Auth-Email"] = "ops@example.test"
    /\ requests[1].headers["X-Auth-Key"] = "env-key"

BodyTools == {"fetchAudioAndSave", "summarizeText", "getFromCloudflareKV"}

\* the failure the handler caught carries the status s
StatusAttached(error, s) ==
    \/ error.response.has /\ error.response.status = s
    \/ ~error.response.has /\ Contains(error.message, ToString(s))

\* C16: in speech synthesis, summarization and the key-value read, a
\* response with a status other than 200, other 2xx codes included, never
\* produces a success result: the handler catches a failure that carries
\* that status code and returns a single Text item.
C16_Only200Succeeds ==
    (Done /\ tool \in BodyTools /\ UpstreamStatus \notin {0, 200}) =>
        /\ caught # NoError
        /\ StatusAttached(caught, UpstreamStatus)
        /\ Len(result.content) = 1
        /\ result.content[1].type = "text"
        /\ \/ StartsWith(result.content[1].text, "Error")
           \/ UpstreamStatus = 404 /\ result.content[1].text = NotFoundText(args.key)

\* a 201 that carried audio data ended as an error naming the status
C16_Witness ==
    /\ Done /\ tool = "fetchAudioAndSave"
    /\ upstream.kind = "resolved" /\ UpstreamStatus = 201
    /\ AudioOf(upstream.response.data) = Some("SUQzBAAAAAAA")
    /\ result.content = << Text("Error: Request failed: 201 - Created") >>

\* C17: in every result a tool returns, no Resource item comes before a
\* Text item; a result with both has the Text first and the Resource
\* second.
C17_TextBeforeResource ==
    Done =>
        LET n == Len(result.content)
            kinds == { result.content[i].type : i \in 1..n }
        IN /\ \A i, j \in 1..n :
                  (i < j /\ result.content[i].type = "resource")
                      => result.content[j].type # "text"
           /\ kinds = {"text", "resource"} =>
                  /\ n = 2
                  /\ result.content[1].type = "text"
                  /\ result.content[2].type = "resource"

\* a key-value read returned its summary text and then its resource
C17_Witness ==
    /\ Done /\ tool = "getFromCloudflareKV"
    /\ Len(result.content) = 2
    /\ result.content[1].type = "text" /\ result.content[2].type = "resource"

\* C18: every Resource item of every result any tool returns carries a
\* uri, and the resource of a successful fetchAudioAndSave is
\* {uri: "data:audio/mp3;base64,<audio>", blob: <audio>, mimeType:
\* "audio/mp3"}.
C18_ResourceCarriesUri ==
    Done =>
        /\ \A i \in 1..Len(result.content) :
               result.content[i].type = "resource"
                   => "uri" \in DOMAIN result.content[i].resource
        /\ (tool = "fetchAudioAndSave" /\ caught = NoError) =>
               LET audio == upstream.response.data.result.v.audio.v IN
               result.content[2].resource =
                   [uri |-> "data:audio/mp3;base64," \o audio,
                    blob |-> audio, mimeType |-> "audio/mp3"]

\* the URLs the first anchors of the root page resolve to
RootResolutions ==
    { NewURL(sublinks[j], args.url).value :
          j \in { n \in 1..Len(sublinks) : ~NewURL(sublinks[n], args.url).threw } }

\* the URLs the anchors of the page served at url resolve to
AnchorsOf(url) ==
    { NewURL(SubPage(url).hrefs[j], url).value :
          j \in { n \in 1..Len(SubPage(url).hrefs) :
                      ~NewURL(SubPage(url).hrefs[n], url).threw } }

\* C19: the URLs a crawl fetches are the root URL and resolutions of the
\* root page's first 5 hrefs against it; the anchors of a sublink's page
\* are never fetched.
C19_DepthOne ==
    tool = "scrapeUrlAndSublinks" =>
        /\ Len(sublinks) <= 5
        /\ sublinks = SubSeq(rootData.hrefs, 1, Len(sublinks))
        /\ \A i \in 1..Len(requests) :
               /\ requests[i].url \in {args.url} \cup RootResolutions
               /\ \A a \in 1..Len(attempts) :
                      ~attempts[a].failed => requests[i].url \notin AnchorsOf(attempts[a].url)

\* five sublink pages, each with anchors of its own, were fetched and
\* the crawl returned after six requests
C19_Witness ==
    /\ ReturnsCrawl(sublinkTexts)
    /\ Len(rootData.hrefs) = 7 /\ Len(requests) = 6
    /\ \A a \in 1..5 : ~attempts[a].failed /\ AnchorsOf(attempts[a].url) # {}

\* the entries of urls in the order of their first occurrences
RECURSIVE FirstOccurrences(_)
FirstOccurrences(urls) ==
    IF Len(urls) = 0 THEN << >>
    ELSE LET before == FirstOccurrences(SubSeq(urls, 1, Len(urls) - 1))
             last == urls[Len(urls)]
         IN IF \E i \in 1..Len(before) : before[i] = last THEN before
            ELSE Append(before, last)

\* every fetch of one URL had the same outcome
OutcomesFixedPerURL ==
    \A i, j \in 1..Len(attempts) :
        attempts[i].url = attempts[j].url => attempts[i].value = attempts[j].value

\* C20: the sublink fetches complete in the order they are issued, one at
\* a time, and when every URL has one outcome the returned links mapping is
\* decided by the root page and those outcomes: its keys are the resolved
\* URLs in document order of their first occurrence, and the value of each
\* key is the outcome of the fetch of that URL.
C20_DeterministicAssembly ==
    /\ tool = "scrapeUrlAndSublinks" => Len(requests) - 1 - Len(attempts) \in {0, 1}
    /\ (ReturnsCrawl(sublinkTexts) /\ OutcomesFixedPerURL) =>
           LET urls == [i \in 1..Len(attempts) |-> NewURL(rootData.hrefs[i], args.url).value]
               keys == FirstOccurrences(urls)
           IN /\ Len(sublinkTexts) = Len(keys)
              /\ \A n \in 1..Len(keys) :
                     /\ sublinkTexts[n][1] = keys[n]
                     /\ \A i \in 1..Len(attempts) :
                            attempts[i].url = keys[n] =>
                                /\ sublinkTexts[n][2] = attempts[i].value
                                /\ ~attempts[i].failed =>
                                       sublinkTexts[n][2] = "Text of " \o keys[n]

\* a crawl returned three keys for five links, two of which repeated
\* URLs met earlier, one of them not the URL just before it
C20_Witness ==
    /\ ReturnsCrawl(sublinkTexts) /\ OutcomesFixedPerURL
    /\ Len(attempts) = 5 /\ Len(sublinkTexts) = 3
    /\ \E i, j, k \in 1..5 :
           /\ i < j /\ j < k
           /\ attempts[i].url = attempts[k].url
           /\ attempts[i].url # attempts[j].url

\* the sublink occurrences, among those fetched, that resolved to url
Occurrences(url) == { i \in 1..Len(attempts) : attempts[i].url = url }

\* C23: a URL that several of the first 5 hrefs resolve to is fetched
\* once per occurrence; the links mapping holds one entry for it, whose
\* value is the outcome of the last occurrence's fetch, and the mapping has
\* as many keys as the attempted links have distinct resolved URLs.
C23_RepeatedTargets ==
    tool = "scrapeUrlAndSublinks" =>
        LET fetched == { attempts[i].url : i \in 1..Len(attempts) } IN
        /\ \A i \in 1..Len(attempts) :
               /\ requests[i + 1].url = attempts[i].url
               /\ NewURL(sublinks[i], args.url) = Return(attempts[i].url)
        /\ Len(sublinkTexts) = Cardinality(fetched)
        /\ \A u \in fetched :
               LET last == CHOOSE i \in Occurrences(u) : \A j \in Occurrences(u) : j <= i
                   entries == { n \in 1..Len(sublinkTexts) : sublinkTexts[n][1] = u }
               IN /\ Cardinality(entries) = 1
                  /\ \A n \in entries : sublinkTexts[n][2] = attempts[last].value

\* a URL was fetched twice, failed the first time and answered the
\* second, and the returned mapping holds the answer
C23_Witness ==
    /\ ReturnsCrawl(sublinkTexts)
    /\ \E i, j \in 1..Len(attempts) :
           /\ i < j /\ attempts[i].url = attempts[j].url
           /\ Occurrences(attempts[i].url) = {i, j}
           /\ attempts[i].failed /\ ~attempts[j].failed
           /\ ValueOf(sublinkTexts, attempts[i].url) = "Text of " \o attempts[i].url

\* C24 as stated: whenever the input carries a contentType, the resolved
\* mime type, sent as Content-Type and returned as mimeType, is that value
\* unchanged; the signature is looked at only when contentType is absent.
C24_DeclaredTypeWinsAsStated ==
    (tool = "uploadAudioToR2" /\ args.contentType.has) =>
        /\ finalContentType = args.contentType.v
        /\ requests[1].headers["Content-Type"] = args.contentType.v
        /\ Uploaded => result.content[2].resource.mimeType = args.contentType.v

\* C24 as amended: whenever the input carries a non-empty contentType,
\* the resolved mime type, sent as Content-Type and returned as mimeType,
\* is that value unchanged, whatever the payload; the signature decides
\* only when contentType is absent or the empty string.
C24_DeclaredTypeWins ==
    tool = "uploadAudioToR2" =>
        LET declared == args.contentType.has /\ args.contentType.v # ""
            mime == IF declared THEN args.contentType.v
                    ELSE IF HasWavSignature(args.fileData) THEN "audio/wav"
                    ELSE "audio/mp3"
        IN /\ finalContentType = mime
           /\ requests[1].headers["Content-Type"] = mime
           /\ Uploaded => result.content[2].resource.mimeType = mime

\* a WAV payload declared as audio/ogg was stored as audio/ogg
C24_Witness ==
    /\ Uploaded /\ args.contentType = Some("audio/ogg")
    /\ HasWavSignature(args.fileData)
    /\ requests[1].headers["Content-Type"] = "audio/ogg"
    /\ result.content[2].resource.mimeType = "audio/ogg"

\* C25: a crawl whose root fetch fails issues no sublink fetch and
\* returns the single Text "Error: " and the failure's message; sublink
\* fetches are issued only after the root fetch has succeeded, and each
\* only after the one before it has completed or failed.
C25_RootFailureStopsCrawl ==
    tool = "scrapeUrlAndSublinks" =>
        /\ upstream.kind = "rejected" =>
               /\ Len(requests) = 1 /\ Len(attempts) = 0
               /\ Done /\ result.content = << Text("Error: " \o upstream.error.message) >>
        /\ Len(requests) > 1 => upstream.kind = "resolved"
        /\ pc = "awaitRoot" => Len(requests) = 1 /\ upstream = NoOutcome
        /\ Len(requests) <= Len(attempts) + 2
        /\ pc = "awaitSub" <=> Len(requests) = Len(attempts) + 2

\* a root that answered 500 with a provider message ended the crawl
\* after its one request
C25_Witness ==
    /\ Done /\ tool = "scrapeUrlAndSublinks"
    /\ UpstreamStatus = 500
    /\ ProviderMessage(upstream.error) = Some("Authentication error")
    /\ Len(requests) = 1
    /\ result.content = << Text("Error: Request failed with status code 500") >>

\* the payload a status-200 response of the two tools carries
PayloadIn(response) ==
    IF tool = "fetchAudioAndSave" THEN AudioOf(response.data) ELSE SummaryOf(response.data)

\* C26: a status-200 response of speech synthesis or summarization
\* without the payload, or with an empty one, ends as exactly one Text
\* that begins with "Error: " and no Resource; a success result of the two
\* tools carries the non-empty payload.
C26_MissingPayloadIsError ==
    (Done /\ tool \in {"fetchAudioAndSave", "summarizeText"} /\ UpstreamStatus = 200) =>
        LET payload == PayloadIn(upstream.response) IN
        IF ~payload.has \/ payload.v = ""
        THEN /\ Len(result.content) = 1
             /\ result.content[1].type = "text"
             /\ StartsWith(result.content[1].text, "Error: ")
        ELSE /\ caught = NoError
             /\ IF tool = "summarizeText" THEN result.content = << Text(payload.v) >>
                ELSE /\ Len(result.content) = 2
                     /\ PayloadOf(result.content[2].resource) = payload.v

\* a status 200 with an empty summary ended as an error text
C26_Witness ==
    /\ Done /\ tool = "summarizeText" /\ UpstreamStatus = 200
    /\ SummaryOf(upstream.response.data) = Some("")
    /\ result.content = << Text("Error: Summary data not found in the response.") >>

Waiting == pc \in {"await", "awaitRoot", "awaitSub"}

\* C21: where every outbound call eventually responds or fails, an
\* invocation that has begun eventually returns a ToolResult; every step
\* of a waiting handler takes it to its return or to the await of the next
\* sublink, the crawl loop ends after at most 5 sublink iterations, and no
\* invocation ends other than by returning.
C21_RunsToCompletion ==
    /\ [](idx <= 5 /\ Len(attempts) <= 5 /\ pc # "rejected")
    /\ [][Waiting => (Done' \/ (pc' = "awaitSub" /\ idx' = idx + 1))]_vars
    /\ (Waiting ~> Done)

\* a crawl of a page of 7 anchors returned after its fifth iteration
C21_Witness ==
    /\ Done /\ tool = "scrapeUrlAndSublinks"
    /\ Len(rootData.hrefs) = 7 /\ idx = 5 /\ Len(attempts) = 5
    /\ caught = NoError

\* the crawl of url run by itself on the responses it received: the links
\* from position i on, each resolved and stored under its own address
RECURSIVE CrawlAlone(_, _, _, _, _, _)
CrawlAlone(url, links, responses, i, text, texts) ==
    IF i = Len(links) THEN ScrapeReturn(url, text, texts).value
    ELSE LET resolved == NewURL(links[i + 1], url) IN
         IF resolved.threw THEN ScrapeCatch(resolved.error).value
         ELSE IF i + 1 > Len(responses) THEN NoResult
         ELSE CrawlAlone(url, links, responses, i + 1, text,
                         SetKey(texts, resolved.value, SublinkValue(responses[i + 1])))

\* the result an invocation produces when no other invocation runs, given
\* the upstream responses it received
RunAlone(call) ==
    IF call.tool = "getFromCloudflareKV"
    THEN KVHandler(call.received[1], call.args).value
    ELSE LET root == Await(call.received[1]) IN
         IF root.threw THEN ScrapeCatch(root.error).value
         ELSE CrawlAlone(call.args.url, Sublinks(root.value.data),
                         SubSeq(call.received, 2, Len(call.received)), 0,
                         BodyText(root.value.data), << >>)

\* the addresses an invocation itself has sent a request to
OwnTargets(call) == { call.requests[i].url : i \in 1..Len(call.requests) }

\* C22: however two invocations interleave at their awaits, each one's result
\* is the result it produces running alone on the same upstream responses,
\* the links mapping of a crawl holds only entries for addresses that crawl
\* itself requested, and no step of any invocation changes the configuration
C22_Independence ==
    /\ [](\A s \in Slots :
             /\ calls[s].pc = "done" => calls[s].result = RunAlone(calls[s])
             /\ calls[s].pc = "awaitSub" =>
                    Keys(frames[s].sublinkTexts) \subseteq OwnTargets(calls[s]))
    /\ [][config' = config /\ revision' = revision]_vars

\* both crawls are past their first sublink at once, on different sites, and
\* each holds an entry in its own mapping
C22_Witness ==
    /\ calls["first"].pc = "awaitSub" /\ calls["second"].pc = "awaitSub"
    /\ calls["first"].args # calls["second"].args
    /\ frames["first"].idx = 2 /\ frames["second"].idx = 2
    /\ Len(frames["first"].sublinkTexts) = 1
    /\ Len(frames["second"].sublinkTexts) = 1
    /\ Keys(frames["first"].sublinkTexts) # Keys(frames["second"].sublinkTexts)

====
